---- MODULE Spec2Model ----
(***************************************************************************)
(* Passkey-derived encryption and secure storage of the TOTP vault:        *)
(* the envelope cipher (utils/crypto), the session (isUnlocked,            *)
(* currentPasskeyKeyMaterial) and the storage composable useSecureStorage  *)
(* (loadData, saveData, migrateToEncrypted, the two watchers), with the    *)
(* suspension points of the async functions as separate steps.             *)
(*                                                                         *)
(* Strings are sequences of character tokens, byte arrays are sequences of *)
(* byte tokens; a token is a record [k |-> kind, v |-> payload].  The tag  *)
(* 'encrypted:' (10 characters) and one serialized account are one token   *)
(* each.  The cipher is symbolic: AES-GCM output is a token that records   *)
(* the derived key, the nonce and the plaintext bytes, and opens only      *)
(* under exactly that key and nonce; HKDF is injective in (keying          *)
(* material, salt); crypto.getRandomValues never repeats a value.          *)
(***************************************************************************)
EXTENDS Integers, Sequences, FiniteSets, TLC

(***************************************************************************)
(* Bounds of the model.                                                    *)
(***************************************************************************)
MaxAccounts == 1
MaxCalls == 3
MaxLen == 2
MaxClicks == 2

(***************************************************************************)
(* Value domains.                                                          *)
(***************************************************************************)
KeyMaterials == {"K1", "K2"}
NoKey == "null"
Accounts == {"acct1"}
RecordKey == "totp-accounts"
OtherKey == "other-record"
StorageKeys == {RecordKey, OtherKey}

RECURSIVE SeqsUpTo(_, _)
SeqsUpTo(S, n) ==
  IF n = 0 THEN {<<>>}
  ELSE LET shorter == SeqsUpTo(S, n - 1)
       IN  shorter \cup {Append(s, x) : s \in shorter, x \in S}

Values == SeqsUpTo(Accounts, MaxAccounts)

Ch(c) == [k |-> "ch", v |-> c]
U8(c) == [k |-> "u8", v |-> c]
B64(b) == [k |-> "b64", v |-> b]
Rnd(n) == [k |-> "rnd", v |-> n]

EncryptedTag == <<Ch("encrypted:")>>
NoError == "null"
AuthenticationFailed ==
  "Failed to decrypt data with passkey - authentication failed or corrupted data"
EncryptFailed == "Failed to encrypt data with passkey"
InvalidKeyMaterial == "Invalid passkey authentication or corrupted data"
EncryptionSessionRequired ==
  "Data is encrypted but no passkey authentication available"
CannotMigrate ==
  "Cannot migrate: encryption not available or no passkey authentication"
SyntaxError == "SyntaxError"

(***************************************************************************)
(* What a call that may throw yields: the value it returns, or the error.  *)
(***************************************************************************)
Ok(x) == [ok |-> TRUE, val |-> x, err |-> NoError]
Fail(e) == [ok |-> FALSE, val |-> <<>>, err |-> e]

(***************************************************************************)
(* JSON.stringify / JSON.parse of the record's value (an array of          *)
(* accounts): '[' account* ']'.                                            *)
(***************************************************************************)
JSONstringify(value) ==
  <<Ch("[")>> \o [i \in 1..Len(value) |-> Ch(value[i])] \o <<Ch("]")>>

JSONparse(text) ==
  IF /\ Len(text) >= 2
     /\ text[1] = Ch("[")
     /\ text[Len(text)] = Ch("]")
     /\ \A i \in 2..(Len(text) - 1) : text[i].k = "ch" /\ text[i].v \in Accounts
  THEN Ok([i \in 1..(Len(text) - 2) |-> text[i + 1].v])
  ELSE Fail(SyntaxError)

(***************************************************************************)
(* stored.startsWith('encrypted:') and stored.substring(10).               *)
(***************************************************************************)
startsWithTag(stored) == Len(stored) >= 1 /\ stored[1] = Ch("encrypted:")

substring10(stored) == Tail(stored)

(***************************************************************************)
(* TextEncoder.encode: UTF-8 bytes of the string's scalar values; an       *)
(* unpaired surrogate is encoded as U+FFFD.  TextDecoder.decode (default   *)
(* options: not fatal, ignoreBOM false): one character per scalar value,   *)
(* a byte that is no UTF-8 becomes U+FFFD, a leading U+FEFF is dropped.    *)
(***************************************************************************)
stringToArrayBuffer(str) ==
  [i \in 1..Len(str) |-> U8(IF str[i].v = "SUR" THEN "FFFD" ELSE str[i].v)]

arrayBufferToString(buffer) ==
  LET chars == [i \in 1..Len(buffer) |->
                  IF buffer[i].k = "u8" THEN Ch(buffer[i].v) ELSE Ch("FFFD")]
  IN  IF Len(chars) >= 1 /\ chars[1] = Ch("BOM") THEN Tail(chars) ELSE chars

(***************************************************************************)
(* btoa over the bytes / atob: atob throws on a character that is no       *)
(* base64.                                                                 *)
(***************************************************************************)
arrayBufferToBase64(buffer) == [i \in 1..Len(buffer) |-> B64(buffer[i])]

base64ToArrayBuffer(base64) ==
  IF \A i \in 1..Len(base64) : base64[i].k = "b64"
  THEN Ok([i \in 1..Len(base64) |-> base64[i].v])
  ELSE Fail("InvalidCharacterError")

(***************************************************************************)
(* HKDF(SHA-256, salt, info) -> AES-GCM-256 key.                           *)
(***************************************************************************)
deriveKeyFromPasskey_fixed(keyMaterial, salt) == [km |-> "K1", salt |-> salt]

deriveKeyFromPasskey(keyMaterial, salt) == [km |-> keyMaterial, salt |-> salt]

(***************************************************************************)
(* crypto.subtle.encrypt / decrypt with AES-GCM.                           *)
(***************************************************************************)
subtleEncrypt(iv, key, dataBuffer) ==
  <<[k |-> "gcm", v |-> [key |-> key, iv |-> iv, pt |-> dataBuffer]]>>

subtleDecrypt(iv, key, encrypted) ==
  IF /\ Len(encrypted) = 1
     /\ encrypted[1].k = "gcm"
     /\ encrypted[1].v.key = key
     /\ encrypted[1].v.iv = iv
  THEN Ok(encrypted[1].v.pt)
  ELSE Fail("OperationError")

(***************************************************************************)
(* crypto.getRandomValues: the n-th value drawn.                           *)
(***************************************************************************)
getRandomValues(n) == <<Rnd(n)>>

(***************************************************************************)
(* encryptData(data, keyMaterial), given the salt and the IV it draws.     *)
(***************************************************************************)
encryptData(data, keyMaterial, salt, iv) ==
  LET key == deriveKeyFromPasskey(keyMaterial, salt)
      dataBuffer == stringToArrayBuffer(data)
      encryptedBuffer == subtleEncrypt(iv, key, dataBuffer)
      combined == salt \o iv \o encryptedBuffer
  IN  arrayBufferToBase64(combined)

(***************************************************************************)
(* decryptData(encryptedData, keyMaterial): Ok(plaintext), or Fail for the *)
(* error 'Failed to decrypt data with passkey - authentication failed or   *)
(* corrupted data' that its catch throws for every failure inside.  The    *)
(* salt is combined.slice(0, 16), the IV combined.slice(16, 28); salt and  *)
(* IV are one token each.                                                  *)
(***************************************************************************)
decryptData(encryptedData, keyMaterial) ==
  LET decoded == base64ToArrayBuffer(encryptedData)
      combined == decoded.val
      n == Len(combined)
      salt == SubSeq(combined, 1, IF n < 1 THEN n ELSE 1)
      iv == SubSeq(combined, 2, IF n < 2 THEN n ELSE 2)
      encrypted == SubSeq(combined, 3, n)
      key == deriveKeyFromPasskey(keyMaterial, salt)
      decryptedBuffer == subtleDecrypt(iv, key, encrypted)
  IN  IF ~decoded.ok THEN Fail(AuthenticationFailed)
      ELSE IF ~decryptedBuffer.ok THEN Fail(AuthenticationFailed)
      ELSE Ok(arrayBufferToString(decryptedBuffer.val))

isCryptoAvailable == TRUE

(***************************************************************************)
(* State.                                                                  *)
(*   localStorage    key -> stored string (<<>>: no item under the key)    *)
(*   keyOrder        the order in which localStorage.key(i) enumerates     *)
(*   isUnlocked, currentPasskeyKeyMaterial   the module-level session refs *)
(*   data, error     the composable's refs; defaultValue is the object the *)
(*                   composable was given, which data.value aliases while  *)
(*                   dataSrc = "default"                                   *)
(*   dataSrc         where data.value comes from: "default" (it is the     *)
(*                   defaultValue object), "plain" (JSON.parse of a        *)
(*                   plaintext record), "decrypted" (JSON.parse of a       *)
(*                   decryptData result), "fresh" (a new array made from   *)
(*                   the default one)                                      *)
(*   saveQueued, loadQueued   the two watchers' jobs queued for the next   *)
(*                   flush                                                 *)
(*   saves, loads, unlocks    the calls suspended at their await           *)
(*   rng             the number of encryptData calls so far (each draws    *)
(*                   two random values)                                    *)
(*   calls           the number of operations called from outside so far   *)
(* History variables, read by the properties only:                         *)
(*   last            the operation of the last step and its outcome;       *)
(*                   thrown: the operation rejected (threw to its caller)  *)
(*   sinceLock       lockStorage ran and no unlockStorage completed        *)
(*                   successfully since                                    *)
(*   parsedTagged, openedUntagged   a tagged stored value was given to     *)
(*                   JSON.parse / an untagged one to decryptData           *)
(*   sealLog         the encryptData calls so far: keying material, salt,  *)
(*                   IV, plaintext and resulting blob of each              *)
(*   migRun          progress of two migrateToEncrypted calls in a row     *)
(*   cipher          the envelope cipher exercised on its own (SpecCipher) *)
(***************************************************************************)
VARIABLES localStorage, keyOrder, isUnlocked, currentPasskeyKeyMaterial,
          data, defaultValue, dataSrc, error, saveQueued, loadQueued,
          saves, loads, unlocks, rng, calls,
          last, sinceLock, parsedTagged, openedUntagged, sealLog, migRun,
          cipher, app, run

vars == <<localStorage, keyOrder, isUnlocked, currentPasskeyKeyMaterial,
          data, defaultValue, dataSrc, error, saveQueued, loadQueued,
          saves, loads, unlocks, rng, calls,
          last, sinceLock, parsedTagged, openedUntagged, sealLog, migRun,
          cipher, app, run>>

session == <<isUnlocked, currentPasskeyKeyMaterial>>
memory == <<data, defaultValue, dataSrc>>
flags == <<parsedTagged, openedUntagged>>

(***************************************************************************)
(* const canUseEncryption = isCryptoAvailable() && encryptionEnabled.value *)
(* is evaluated once, when the composable is created; encryptionEnabled is *)
(* ref(true) then.                                                         *)
(***************************************************************************)
encryptionEnabledAtSetup == TRUE
canUseEncryption == isCryptoAvailable /\ encryptionEnabledAtSetup

Last(op, res) ==
  [op |-> op, res |-> res, km |-> NoKey, val |-> <<>>, unl |-> FALSE,
   ks0 |-> {}, ks |-> {}, thrown |-> FALSE]

CipherIdle ==
  [phase |-> "idle", P |-> <<>>, K1 |-> NoKey, K2 |-> NoKey,
   blob1 |-> <<>>, blob2 |-> <<>>, out |-> Fail(NoError)]

MigIdle == [phase |-> "idle", before |-> <<>>, plain |-> FALSE]

(***************************************************************************)
(* The application around the composable (App.vue, SetupPasskey and the    *)
(* passkey utilities), as the record app:                                  *)
(*   mounted                onMounted of App.vue has run                   *)
(*   pref                   localStorage['encryption-preference']          *)
(*   encryptionEnabled      the module's ref, ref(true) when loaded        *)
(*   credential             localStorage['passkey-credential'] (text)      *)
(*   given                  the descriptor last handed to                  *)
(*                          storePasskeyCredential (history)               *)
(*   hasPasskeyConfigured   App.vue's ref                                  *)
(*   unlock                 handleDirectUnlock in flight (isUnlocking)     *)
(*   setup                  handleSetupPasskey in flight (isSettingUp)     *)
(*   handlers               handlePasskeySetup calls in flight             *)
(*   unlockError, setupError  the refs the two catch blocks assign         *)
(***************************************************************************)
NoDescriptor == [id |-> "none", publicKey |-> <<>>, userHandle |-> <<>>]

FlowIdle == [pc |-> "idle", id |-> "none", km |-> NoKey,
             before |-> <<FALSE, NoKey>>]

AppIdle ==
  [mounted |-> FALSE, pref |-> "null", encryptionEnabled |-> TRUE,
   credential |-> <<>>, given |-> NoDescriptor,
   hasPasskeyConfigured |-> FALSE, unlock |-> FlowIdle, setup |-> FlowIdle,
   handlers |-> {}, unlockError |-> NoError, setupError |-> NoError]

RunIdle == [pc |-> "idle"]

(***************************************************************************)
(* The keying material a tagged stored value was sealed with, and the      *)
(* content of a stored value: what JSON.parse yields from it, after        *)
(* decryptData under the keying material it was sealed with when tagged.   *)
(***************************************************************************)
SealedWith(stored) == stored[Len(stored)].v.v.key.km

ContentOf(stored) ==
  IF startsWithTag(stored)
  THEN JSONparse(decryptData(substring10(stored), SealedWith(stored)).val)
  ELSE JSONparse(stored)

Sealers(ls) == {SealedWith(ls[k]) : k \in {j \in StorageKeys : startsWithTag(ls[j])}}

(***************************************************************************)
(* localStorage.length, localStorage.key(i), hasEncryptedData().           *)
(***************************************************************************)
PresentKeys(ls) == SelectSeq(keyOrder, LAMBDA k : ls[k] # <<>>)

hasEncryptedData == \E k \in StorageKeys : startsWithTag(localStorage[k])

(***************************************************************************)
(* The index of the first tagged item at or after index i (0-based) in the *)
(* loop of unlockStorage, or -1 when the loop runs to its end.             *)
(***************************************************************************)
FirstEncryptedFrom(ls, i) ==
  LET keys == PresentKeys(ls)
      hits == {j \in i..(Len(keys) - 1) : startsWithTag(ls[keys[j + 1]])}
  IN  IF hits = {} THEN -1 ELSE CHOOSE j \in hits : \A h \in hits : j <= h

(***************************************************************************)
(* Initial state: the module is loaded and the composable created; the     *)
(* session is locked.  localStorage holds what earlier runs of the         *)
(* application left: nothing, a plaintext record, or a record sealed with  *)
(* some keying material; a second record may have been sealed by another   *)
(* instance of the composable.                                             *)
(***************************************************************************)
Sealed(value, km, n) ==
  EncryptedTag \o encryptData(JSONstringify(value), km,
                              getRandomValues(n), getRandomValues(n - 1))

InitStorage ==
  {[k \in StorageKeys |-> IF k = RecordKey THEN r ELSE o] :
     r \in {<<>>} \cup {JSONstringify(v) : v \in Values}
             \cup {Sealed(v, km, -1) : v \in Values, km \in KeyMaterials},
     o \in {<<>>, Sealed(<<>>, "K1", -3)}}

Booted ==
  /\ isUnlocked = FALSE
  /\ currentPasskeyKeyMaterial = NoKey
  /\ data = <<>>
  /\ defaultValue = <<>>
  /\ dataSrc = "default"
  /\ error = NoError
  /\ saveQueued = FALSE
  /\ loadQueued = FALSE
  /\ saves = {}
  /\ loads = {}
  /\ unlocks = {}
  /\ rng = 0
  /\ calls = 0
  /\ last = Last("init", "ok")
  /\ sinceLock = FALSE
  /\ parsedTagged = FALSE
  /\ openedUntagged = FALSE
  /\ sealLog = {}
  /\ migRun = MigIdle

Init ==
  /\ localStorage \in InitStorage
  /\ keyOrder \in {<<RecordKey, OtherKey>>, <<OtherKey, RecordKey>>}
  /\ localStorage[OtherKey] = <<>> => keyOrder = <<RecordKey, OtherKey>>
  /\ Booted
  /\ cipher = CipherIdle
  /\ app = AppIdle
  /\ run = RunIdle

(***************************************************************************)
(* No watcher job is queued: the flush of the queued jobs runs before any  *)
(* event handler or promise continuation does.                             *)
(***************************************************************************)
Quiet == ~saveQueued /\ ~loadQueued

(***************************************************************************)
(* An operation called from outside (an event handler of the application): *)
(* it runs when no job is queued, and the model follows MaxCalls of them.  *)
(***************************************************************************)
Called ==
  /\ Quiet
  /\ calls < MaxCalls
  /\ calls' = calls + 1

(***************************************************************************)
(* data.value = defaultValue: the ref's setter compares the raw objects,   *)
(* so nothing changes and no watcher runs while data.value already is the  *)
(* defaultValue object.                                                    *)
(***************************************************************************)
ResetToDefault ==
  IF dataSrc = "default"
  THEN UNCHANGED <<data, dataSrc, saveQueued>>
  ELSE /\ data' = defaultValue
       /\ dataSrc' = "default"
       /\ saveQueued' = TRUE

(***************************************************************************)
(* data.value = JSON.parse(...): a new object, the data watcher's job is   *)
(* queued.                                                                 *)
(***************************************************************************)
SetData(value, src) ==
  /\ data' = value
  /\ dataSrc' = src
  /\ saveQueued' = TRUE

(***************************************************************************)
(* loadData: which branch a stored value takes.                            *)
(***************************************************************************)
loadDataBranch_noSession(stored, keyMaterial) ==
  IF startsWithTag(stored) /\ canUseEncryption
  THEN "decrypt"
  ELSE IF ~startsWithTag(stored) THEN "plain" ELSE "required"

loadDataBranch_noTag(stored, keyMaterial) ==
  IF canUseEncryption /\ keyMaterial # NoKey
  THEN "decrypt"
  ELSE "plain"

loadDataBranch(stored, keyMaterial) ==
  IF startsWithTag(stored) /\ canUseEncryption /\ keyMaterial # NoKey
  THEN "decrypt"
  ELSE IF ~startsWithTag(stored) THEN "plain" ELSE "required"

(***************************************************************************)
(* loadData up to its await (or to its end when it does not await).        *)
(***************************************************************************)
LoadCall ==
  LET stored == localStorage[RecordKey]
      branch == loadDataBranch(stored, currentPasskeyKeyMaterial)
      parsed == JSONparse(stored)
  IN  CASE stored = <<>> ->
             /\ ResetToDefault
             /\ error' = NoError
             /\ last' = Last("loadData", "default")
             /\ UNCHANGED <<loads, flags>>
        [] stored # <<>> /\ branch = "decrypt" ->
             /\ loads' = loads \cup {[enc |-> substring10(stored),
                                     km |-> currentPasskeyKeyMaterial]}
             /\ openedUntagged' = (openedUntagged \/ ~startsWithTag(stored))
             /\ error' = NoError
             /\ last' = Last("loadData", "await")
             /\ UNCHANGED <<data, dataSrc, saveQueued, parsedTagged>>
        [] stored # <<>> /\ branch = "plain" ->
             /\ parsedTagged' = (parsedTagged \/ startsWithTag(stored))
             /\ IF parsed.ok
                THEN /\ SetData(parsed.val, "plain")
                     /\ error' = NoError
                     /\ last' = Last("loadData", "loaded")
                ELSE /\ ResetToDefault
                     /\ error' = SyntaxError
                     /\ last' = Last("loadData", SyntaxError)
             /\ UNCHANGED <<loads, openedUntagged>>
        [] stored # <<>> /\ branch = "required" ->
             /\ ResetToDefault
             /\ error' = EncryptionSessionRequired
             /\ last' = Last("loadData", EncryptionSessionRequired)
             /\ UNCHANGED <<loads, flags>>

(***************************************************************************)
(* loadData() called from outside the composable.                          *)
(***************************************************************************)
loadDataCall ==
  /\ LoadCall
  /\ migRun' = MigIdle
  /\ UNCHANGED <<localStorage, keyOrder, session, defaultValue, loadQueued,
                 saves, unlocks, rng, sinceLock, sealLog, cipher>>

LoadData == Called /\ loadDataCall /\ UNCHANGED <<app, run>>

(***************************************************************************)
(* loadData resumed after await decryptData.                               *)
(***************************************************************************)
LoadResume(l) ==
  LET decrypted == decryptData(l.enc, l.km)
      parsed == JSONparse(decrypted.val)
  IN  /\ Quiet
      /\ loads' = loads \ {l}
      /\ IF decrypted.ok
         THEN IF parsed.ok
              THEN /\ SetData(parsed.val, "decrypted")
                   /\ last' = Last("loadData.resume", "loaded")
                   /\ UNCHANGED error
              ELSE /\ ResetToDefault
                   /\ error' = SyntaxError
                   /\ last' = Last("loadData.resume", SyntaxError)
         ELSE /\ ResetToDefault
              /\ error' = InvalidKeyMaterial
              /\ last' = Last("loadData.resume", InvalidKeyMaterial)
      /\ UNCHANGED <<localStorage, keyOrder, session, defaultValue, loadQueued,
                     saves, unlocks, rng, sinceLock, flags, sealLog, migRun,
                     calls,
                 cipher, app, run>>

(***************************************************************************)
(* encryptData's two draws: the salt, then the IV.                         *)
(***************************************************************************)
drawSalt(n) == getRandomValues(2 * n + 1)

drawIv_fixed(n) == getRandomValues(0)

drawIv(n) == getRandomValues(2 * n + 2)

(***************************************************************************)
(* localStorage.setItem(key, `encrypted:${encryptedData}`).                *)
(***************************************************************************)
storedForm_untagged(encryptedData) == encryptedData

storedForm(encryptedData) == EncryptedTag \o encryptedData

(***************************************************************************)
(* saveData up to its await (or to its end when it writes plain JSON), for *)
(* the in-memory value d; mig marks the call migrateToEncrypted awaits.    *)
(***************************************************************************)
SaveCall(d, mig) ==
  LET jsonData == JSONstringify(d)
      salt == drawSalt(rng)
      iv == drawIv(rng)
  IN  /\ error' = NoError
      /\ IF canUseEncryption /\ currentPasskeyKeyMaterial # NoKey
         THEN /\ saves' = saves \cup
                   {[json |-> jsonData, km |-> currentPasskeyKeyMaterial,
                     salt |-> salt, iv |-> iv, val |-> d,
                     unl |-> isUnlocked, mig |-> mig]}
              /\ rng' = rng + 1
              /\ sealLog' = sealLog \cup
                   {[km |-> currentPasskeyKeyMaterial, salt |-> salt,
                     iv |-> iv, data |-> jsonData,
                     blob |-> encryptData(jsonData, currentPasskeyKeyMaterial,
                                          salt, iv)]}
              /\ last' = Last("saveData", "await")
              /\ UNCHANGED localStorage
         ELSE /\ localStorage' = [localStorage EXCEPT ![RecordKey] = jsonData]
              /\ last' = [Last("saveData", "written") EXCEPT
                            !.val = d, !.unl = isUnlocked]
              /\ UNCHANGED <<saves, rng, sealLog>>

(***************************************************************************)
(* saveData resumed after await encryptData: the tagged blob is written.   *)
(* A migrateToEncrypted awaiting this call completes with it.              *)
(***************************************************************************)
saveDataResume(s) ==
  /\ Quiet
  /\ saves' = saves \ {s}
  /\ localStorage' =
       [localStorage EXCEPT
          ![RecordKey] = storedForm(encryptData(s.json, s.km, s.salt, s.iv))]
  /\ unlocks' = {[u EXCEPT !.ks = @ \cup {s.km}] : u \in unlocks}
  /\ last' = [Last("saveData", "written") EXCEPT
                !.km = s.km, !.val = s.val, !.unl = s.unl]
  /\ migRun' = IF s.mig /\ migRun.phase = "first"
               THEN [migRun EXCEPT !.phase = "between"]
               ELSE IF s.mig /\ migRun.phase = "second"
               THEN [migRun EXCEPT !.phase = "done"]
               ELSE migRun
  /\ UNCHANGED <<keyOrder, session, memory, error, saveQueued, loadQueued,
                 loads, rng, sinceLock, flags, sealLog, calls, cipher>>

SaveResume(s) == saveDataResume(s) /\ UNCHANGED <<app, run>>

(***************************************************************************)
(* watch(data, saveData, { deep: true }): the queued job runs saveData.    *)
(***************************************************************************)
WatchData ==
  /\ saveQueued
  /\ saveQueued' = FALSE
  /\ SaveCall(data, FALSE)
  /\ UNCHANGED <<keyOrder, session, memory, loadQueued, loads, unlocks,
                 sinceLock, flags, migRun, calls,
                 cipher, app, run>>

(***************************************************************************)
(* watch([currentPasskeyKeyMaterial, isUnlocked], ...): the queued job     *)
(* runs loadData when the session is unlocked.                             *)
(***************************************************************************)
WatchSession ==
  /\ loadQueued
  /\ loadQueued' = FALSE
  /\ IF isUnlocked /\ currentPasskeyKeyMaterial # NoKey
     THEN LoadCall
     ELSE UNCHANGED <<data, dataSrc, saveQueued, error, loads, last, flags>>
  /\ UNCHANGED <<localStorage, keyOrder, session, defaultValue, saves,
                 unlocks, rng, sinceLock, sealLog, migRun, calls,
                 cipher, app, run>>

(***************************************************************************)
(* accounts.value.push(newAccount): the array is changed in place, and it  *)
(* is the defaultValue array while data.value aliases it.                  *)
(***************************************************************************)
pushAccount(a) ==
  /\ Len(data) < MaxAccounts
  /\ data' = Append(data, a)
  /\ defaultValue' = IF dataSrc = "default" THEN Append(data, a) ELSE defaultValue
  /\ saveQueued' = TRUE
  /\ last' = Last("addAccount", "ok")
  /\ migRun' = MigIdle
  /\ UNCHANGED <<localStorage, keyOrder, session, dataSrc, error, loadQueued,
                 saves, loads, unlocks, rng, sinceLock, flags, sealLog, cipher>>

AddAccount(a) == Called /\ pushAccount(a) /\ UNCHANGED <<app, run>>

(***************************************************************************)
(* accounts.value = accounts.value.filter(...): a new array.               *)
(***************************************************************************)
filterAccounts(a) ==
  /\ \E i \in 1..Len(data) : data[i] = a
  /\ data' = SelectSeq(data, LAMBDA x : x # a)
  /\ dataSrc' = IF dataSrc = "default" THEN "fresh" ELSE dataSrc
  /\ saveQueued' = TRUE
  /\ last' = Last("deleteAccount", "ok")
  /\ migRun' = MigIdle
  /\ UNCHANGED <<localStorage, keyOrder, session, defaultValue, error,
                 loadQueued, saves, loads, unlocks, rng, sinceLock, flags,
                 sealLog, cipher>>

DeleteAccount(a) == Called /\ filterAccounts(a) /\ UNCHANGED <<app, run>>

(***************************************************************************)
(* unlockStorage: 'await decryptData(encryptedData, keyMaterial)' returns  *)
(* (keyMaterialValid = true) or throws (continue).                         *)
(***************************************************************************)
keyMaterialValid_any(encryptedData, keyMaterial) == TRUE

keyMaterialValid(encryptedData, keyMaterial) ==
  decryptData(encryptedData, keyMaterial).ok

(***************************************************************************)
(* unlockStorage's last two assignments; the session watcher's job is      *)
(* queued (the key material of a ceremony is a new ArrayBuffer).           *)
(***************************************************************************)
UnlockCommit_dropsKey(keyMaterial) ==
  /\ isUnlocked' = TRUE
  /\ loadQueued' = TRUE
  /\ sinceLock' = FALSE
  /\ UNCHANGED currentPasskeyKeyMaterial

UnlockCommit(keyMaterial) ==
  /\ currentPasskeyKeyMaterial' = keyMaterial
  /\ isUnlocked' = TRUE
  /\ loadQueued' = TRUE
  /\ sinceLock' = FALSE

(***************************************************************************)
(* unlockStorage found no record that opens: it throws 'Invalid passkey    *)
(* authentication or corrupted data' and assigns nothing.                  *)
(***************************************************************************)
UnlockRejected_adopts(u) ==
  /\ unlocks' = unlocks \ {u}
  /\ last' = [Last("unlockStorage", InvalidKeyMaterial) EXCEPT
                !.km = u.km, !.ks0 = u.ks0, !.ks = u.ks, !.thrown = TRUE]
  /\ currentPasskeyKeyMaterial' = u.km
  /\ UNCHANGED <<isUnlocked, loadQueued, sinceLock>>

UnlockRejected_unlocks(u) ==
  /\ unlocks' = unlocks \ {u}
  /\ last' = [Last("unlockStorage", InvalidKeyMaterial) EXCEPT
                !.km = u.km, !.ks0 = u.ks0, !.ks = u.ks, !.thrown = TRUE]
  /\ isUnlocked' = TRUE
  /\ UNCHANGED <<currentPasskeyKeyMaterial, loadQueued, sinceLock>>

UnlockRejected(u) ==
  /\ unlocks' = unlocks \ {u}
  /\ last' = [Last("unlockStorage", InvalidKeyMaterial) EXCEPT
                !.km = u.km, !.ks0 = u.ks0, !.ks = u.ks, !.thrown = TRUE]
  /\ UNCHANGED <<session, loadQueued, sinceLock>>

(***************************************************************************)
(* unlockStorage(keyMaterial) up to its first await, or to its end when no *)
(* stored value is tagged.  ks0 and ks record the keying materials the     *)
(* tagged records were sealed with, at the call and during it.             *)
(***************************************************************************)
unlockStorageCall(keyMaterial) ==
  LET i == FirstEncryptedFrom(localStorage, 0)
      value == localStorage[PresentKeys(localStorage)[i + 1]]
  IN  /\ IF hasEncryptedData
         THEN /\ unlocks' = unlocks \cup
                   {[km |-> keyMaterial, i |-> i, enc |-> substring10(value),
                     ks0 |-> Sealers(localStorage), ks |-> Sealers(localStorage)]}
              /\ openedUntagged' = (openedUntagged \/ ~startsWithTag(value))
              /\ last' = Last("unlockStorage", "await")
              /\ UNCHANGED <<session, loadQueued, sinceLock>>
         ELSE /\ UnlockCommit(keyMaterial)
              /\ last' = [Last("unlockStorage", "unlocked") EXCEPT !.km = keyMaterial]
              /\ UNCHANGED <<unlocks, openedUntagged>>
      /\ migRun' = MigIdle
      /\ UNCHANGED <<localStorage, keyOrder, memory, error, saveQueued, saves,
                     loads, rng, parsedTagged, sealLog, cipher>>

UnlockStorage(keyMaterial) ==
  Called /\ unlockStorageCall(keyMaterial) /\ UNCHANGED <<app, run>>

(***************************************************************************)
(* unlockStorage resumed after await decryptData: commit, or go on with    *)
(* the next tagged item of localStorage as it is now, or throw.            *)
(***************************************************************************)
unlockStorageResume(u) ==
  LET next == FirstEncryptedFrom(localStorage, u.i + 1)
      value == localStorage[PresentKeys(localStorage)[next + 1]]
  IN  /\ Quiet
      /\ IF keyMaterialValid(u.enc, u.km)
         THEN /\ UnlockCommit(u.km)
              /\ unlocks' = unlocks \ {u}
              /\ last' = [Last("unlockStorage", "unlocked") EXCEPT
                            !.km = u.km, !.ks0 = u.ks0, !.ks = u.ks]
              /\ UNCHANGED openedUntagged
         ELSE IF next # -1
              THEN /\ unlocks' = (unlocks \ {u}) \cup
                        {[u EXCEPT !.i = next, !.enc = substring10(value)]}
                   /\ openedUntagged' = (openedUntagged \/ ~startsWithTag(value))
                   /\ last' = Last("unlockStorage", "await")
                   /\ UNCHANGED <<session, loadQueued, sinceLock>>
              ELSE /\ UnlockRejected(u)
                   /\ UNCHANGED openedUntagged
      /\ UNCHANGED <<localStorage, keyOrder, memory, error, saveQueued, saves,
                     loads, rng, parsedTagged, sealLog, migRun, calls, cipher>>

UnlockResume(u) == unlockStorageResume(u) /\ UNCHANGED <<app, run>>

(***************************************************************************)
(* lockStorage(): two assignments, no condition, no await.  The session    *)
(* watcher's job is queued when a ref changed.                             *)
(***************************************************************************)
lockStorage_keepsKey ==
  /\ isUnlocked' = FALSE
  /\ loadQueued' = (loadQueued \/ isUnlocked)
  /\ sinceLock' = TRUE
  /\ last' = Last("lockStorage", "ok")
  /\ migRun' = MigIdle
  /\ UNCHANGED <<localStorage, keyOrder, currentPasskeyKeyMaterial, memory,
                 error, saveQueued, saves, loads, unlocks, rng, flags, sealLog,
                 calls, cipher, app, run>>

lockStorageCall_keepsFlag ==
  /\ currentPasskeyKeyMaterial' = NoKey
  /\ loadQueued' = (loadQueued \/ currentPasskeyKeyMaterial # NoKey)
  /\ sinceLock' = TRUE
  /\ last' = Last("lockStorage", "ok")
  /\ migRun' = MigIdle
  /\ UNCHANGED <<localStorage, keyOrder, isUnlocked, memory, error, saveQueued,
                 saves, loads, unlocks, rng, flags, sealLog, cipher>>

lockStorageCall ==
  /\ currentPasskeyKeyMaterial' = NoKey
  /\ isUnlocked' = FALSE
  /\ loadQueued' = (loadQueued \/ isUnlocked \/ currentPasskeyKeyMaterial # NoKey)
  /\ sinceLock' = TRUE
  /\ last' = Last("lockStorage", "ok")
  /\ migRun' = MigIdle
  /\ UNCHANGED <<localStorage, keyOrder, memory, error, saveQueued, saves,
                 loads, unlocks, rng, flags, sealLog, cipher>>

lockStorage == lockStorageCall /\ UNCHANGED <<calls, app, run>>

(***************************************************************************)
(* migrateToEncrypted: the condition under which it does not throw         *)
(* 'Cannot migrate: ...', 'stored && !stored.startsWith("encrypted:")',    *)
(* and the value it puts into data.value before it saves.                  *)
(***************************************************************************)
canMigrate_always(keyMaterial) == TRUE

canMigrate(keyMaterial) == canUseEncryption /\ keyMaterial # NoKey

needsMigration(stored) == stored # <<>> /\ ~startsWithTag(stored)

migrateData_empty(stored, current) == <<>>

migrateData(stored, current) == JSONparse(stored).val

(***************************************************************************)
(* migrateToEncrypted() up to its await of saveData, or to its end.        *)
(* migRun follows two calls in a row: the first made with a record stored  *)
(* and no unlock, load or save of another value in flight, the second      *)
(* after the first completed, and no other operation called in between.    *)
(***************************************************************************)
migrateToEncryptedCall ==
  LET stored == localStorage[RecordKey]
      first == /\ migRun.phase = "idle"
               /\ loads = {} /\ unlocks = {}
               /\ stored # <<>>
               /\ ContentOf(stored).ok
               /\ \A s \in saves : s.val = ContentOf(stored).val
  IN  /\ IF ~canMigrate(currentPasskeyKeyMaterial)
         THEN /\ last' = [Last("migrateToEncrypted", CannotMigrate) EXCEPT
                            !.thrown = TRUE]
              /\ migRun' = MigIdle
              /\ UNCHANGED <<localStorage, data, dataSrc, error, saveQueued,
                             saves, rng, sealLog, parsedTagged>>
         ELSE IF needsMigration(stored)
         THEN IF ~JSONparse(stored).ok
              THEN /\ last' = [Last("migrateToEncrypted", SyntaxError) EXCEPT
                                 !.thrown = TRUE]
                   /\ migRun' = MigIdle
                   /\ parsedTagged' = (parsedTagged \/ startsWithTag(stored))
                   /\ UNCHANGED <<localStorage, data, dataSrc, error,
                                  saveQueued, saves, rng, sealLog>>
              ELSE /\ SetData(migrateData(stored, data), "plain")
                   /\ parsedTagged' = (parsedTagged \/ startsWithTag(stored))
                   /\ SaveCall(migrateData(stored, data), TRUE)
                   /\ migRun' =
                        IF first
                        THEN [phase |-> "first", before |-> ContentOf(stored).val,
                              plain |-> TRUE]
                        ELSE IF migRun.phase = "between"
                        THEN [migRun EXCEPT !.phase = "second"]
                        ELSE MigIdle
         ELSE /\ last' = Last("migrateToEncrypted", "ok")
              /\ migRun' =
                   IF first
                   THEN [phase |-> "between", before |-> ContentOf(stored).val,
                         plain |-> FALSE]
                   ELSE IF migRun.phase = "between"
                   THEN [migRun EXCEPT !.phase = "done"]
                   ELSE MigIdle
              /\ UNCHANGED <<localStorage, data, dataSrc, error, saveQueued,
                             saves, rng, sealLog, parsedTagged>>
      /\ UNCHANGED <<keyOrder, session, defaultValue, loadQueued, loads,
                     unlocks, sinceLock, openedUntagged, cipher>>

MigrateToEncrypted ==
  Called /\ migrateToEncryptedCall /\ UNCHANGED <<app, run>>

Next ==
  \/ \E keyMaterial \in KeyMaterials : UnlockStorage(keyMaterial)
  \/ \E u \in unlocks : UnlockResume(u)
  \/ lockStorage
  \/ LoadData
  \/ \E l \in loads : LoadResume(l)
  \/ \E s \in saves : SaveResume(s)
  \/ MigrateToEncrypted
  \/ WatchData
  \/ WatchSession
  \/ \E a \in Accounts : AddAccount(a)
  \/ \E a \in Accounts : DeleteAccount(a)

Spec == Init /\ [][Next]_vars

(***************************************************************************)
(* The envelope cipher on its own: encryptData and decryptData applied to  *)
(* every plaintext string of up to MaxLen characters over Chars ("BOM" is  *)
(* U+FEFF, "SUR" an unpaired surrogate) and every pair of keying           *)
(* materials: P is sealed under K1, sealed under K1 once more, and the     *)
(* first blob is opened under K2.                                          *)
(***************************************************************************)
Chars == {"a", "BOM", "SUR"}

Plaintexts ==
  {[i \in 1..Len(s) |-> Ch(s[i])] : s \in SeqsUpTo(Chars, MaxLen)}

InitCipher ==
  /\ localStorage = [k \in StorageKeys |-> <<>>]
  /\ keyOrder = <<RecordKey, OtherKey>>
  /\ Booted
  /\ app = AppIdle
  /\ run = RunIdle
  /\ cipher \in {[phase |-> "start", P |-> p, K1 |-> k1, K2 |-> k2,
                  blob1 |-> <<>>, blob2 |-> <<>>, out |-> Fail(NoError)] :
                   p \in Plaintexts, k1 \in KeyMaterials, k2 \in KeyMaterials}

storageVars ==
  <<localStorage, keyOrder, isUnlocked, currentPasskeyKeyMaterial, data,
    defaultValue, dataSrc, error, saveQueued, loadQueued, saves, loads,
    unlocks, calls, last, sinceLock, parsedTagged, openedUntagged, migRun,
    app, run>>

CipherSeal ==
  /\ cipher.phase = "start"
  /\ cipher' = [cipher EXCEPT
                  !.phase = "sealed",
                  !.blob1 = encryptData(cipher.P, cipher.K1,
                                        drawSalt(rng), drawIv(rng))]
  /\ sealLog' = sealLog \cup
       {[km |-> cipher.K1, salt |-> drawSalt(rng), iv |-> drawIv(rng),
         data |-> cipher.P,
         blob |-> encryptData(cipher.P, cipher.K1, drawSalt(rng), drawIv(rng))]}
  /\ rng' = rng + 1
  /\ UNCHANGED storageVars

CipherSealAgain ==
  /\ cipher.phase = "sealed"
  /\ cipher' = [cipher EXCEPT
                  !.phase = "resealed",
                  !.blob2 = encryptData(cipher.P, cipher.K1,
                                        drawSalt(rng), drawIv(rng))]
  /\ sealLog' = sealLog \cup
       {[km |-> cipher.K1, salt |-> drawSalt(rng), iv |-> drawIv(rng),
         data |-> cipher.P,
         blob |-> encryptData(cipher.P, cipher.K1, drawSalt(rng), drawIv(rng))]}
  /\ rng' = rng + 1
  /\ UNCHANGED storageVars

CipherOpen ==
  /\ cipher.phase \in {"sealed", "resealed"}
  /\ cipher' = [cipher EXCEPT
                  !.phase = "opened",
                  !.out = decryptData(cipher.blob1, cipher.K2)]
  /\ UNCHANGED <<storageVars, rng, sealLog>>

NextCipher == CipherSeal \/ CipherSealAgain \/ CipherOpen

SpecCipher == InitCipher /\ [][NextCipher]_vars

(***************************************************************************)
(* A scripted run of the composable: unlockStorage(K) on a storage with no *)
(* tagged value, V put into data (by data.value = V, or by a push of an    *)
(* account, as the application does) and saved by the data watcher,        *)
(* lockStorage(), loadData(), unlockStorage(K), loadData().  Each call is  *)
(* made once the calls before it and the watcher jobs they queued have     *)
(* completed.  run records what the caller observes.                       *)
(***************************************************************************)
Idle == Quiet /\ saves = {} /\ loads = {} /\ unlocks = {}

RunStart(K, V) ==
  [pc |-> "start", K |-> K, V |-> V, savedTagged |-> FALSE,
   lockedLoad |-> NoError, unlock2 |-> FALSE]

InitRun ==
  /\ localStorage \in
       {[k \in StorageKeys |-> IF k = RecordKey THEN r ELSE <<>>] :
          r \in {<<>>} \cup {JSONstringify(v) : v \in Values}}
  /\ keyOrder = <<RecordKey, OtherKey>>
  /\ Booted
  /\ cipher = CipherIdle
  /\ app = AppIdle
  /\ run \in {RunStart(K, V) : K \in KeyMaterials, V \in Values}

(***************************************************************************)
(* data.value = V: a new array.                                            *)
(***************************************************************************)
assignData(value) ==
  /\ SetData(value, "fresh")
  /\ last' = Last("assignData", "ok")
  /\ migRun' = MigIdle
  /\ UNCHANGED <<localStorage, keyOrder, session, defaultValue, error,
                 loadQueued, saves, loads, unlocks, rng, sinceLock, flags,
                 sealLog, cipher>>

RunUnlock ==
  /\ Idle /\ run.pc = "start"
  /\ unlockStorageCall(run.K)
  /\ run' = [run EXCEPT !.pc = "unlocked"]
  /\ UNCHANGED <<calls, app>>

RunSave ==
  /\ Idle /\ run.pc = "unlocked"
  /\ \/ assignData(run.V)
     \/ \E a \in Accounts : Append(data, a) = run.V /\ pushAccount(a)
  /\ run' = [run EXCEPT !.pc = "saved"]
  /\ UNCHANGED <<calls, app>>

RunLock ==
  /\ Idle /\ run.pc = "saved"
  /\ lockStorageCall
  /\ run' = [run EXCEPT !.pc = "locked",
                        !.savedTagged = startsWithTag(localStorage[RecordKey])]
  /\ UNCHANGED <<calls, app>>

RunLoadLocked ==
  /\ Idle /\ run.pc = "locked"
  /\ loadDataCall
  /\ run' = [run EXCEPT !.pc = "loadedLocked", !.lockedLoad = error']
  /\ UNCHANGED <<calls, app>>

RunUnlockAgain ==
  /\ Idle /\ run.pc = "loadedLocked"
  /\ unlockStorageCall(run.K)
  /\ run' = [run EXCEPT !.pc = "unlockedAgain"]
  /\ UNCHANGED <<calls, app>>

RunLoadFinal ==
  /\ Idle /\ run.pc = "unlockedAgain"
  /\ loadDataCall
  /\ run' = [run EXCEPT !.pc = "loading", !.unlock2 = isUnlocked]
  /\ UNCHANGED <<calls, app>>

RunEnd ==
  /\ Idle /\ run.pc = "loading"
  /\ run' = [run EXCEPT !.pc = "done"]
  /\ UNCHANGED <<localStorage, keyOrder, session, memory, error, saveQueued,
                 loadQueued, saves, loads, unlocks, rng, calls, last, sinceLock,
                 flags, sealLog, migRun, cipher, app>>

Reactions ==
  \/ \E u \in unlocks : UnlockResume(u)
  \/ \E l \in loads : LoadResume(l)
  \/ \E s \in saves : SaveResume(s)
  \/ WatchData
  \/ WatchSession

NextRun ==
  \/ RunUnlock
  \/ RunSave
  \/ RunLock
  \/ RunLoadLocked
  \/ RunUnlockAgain
  \/ RunLoadFinal
  \/ RunEnd
  \/ Reactions

SpecRun == InitRun /\ [][NextRun]_vars

(***************************************************************************)
(* The lock state toggled and nothing else: the only calls are             *)
(* unlockStorage and lockStorage, followed by whatever they trigger (the   *)
(* continuations and the two watchers); the caller never changes data.     *)
(***************************************************************************)
NextToggle ==
  \/ \E keyMaterial \in KeyMaterials : UnlockStorage(keyMaterial)
  \/ lockStorage
  \/ Reactions

SpecToggle == Init /\ [][NextToggle]_vars

(***************************************************************************)
(* The passkey utilities.  A credential descriptor is {id, publicKey,      *)
(* userHandle}; JSON text of an object is the sequence of its members.     *)
(***************************************************************************)
CredIds == {"cred1", "cred2"}

Descriptor(id) ==
  [id |-> id, publicKey |-> <<"publicKey", id>>, userHandle |-> <<"userHandle", id>>]

JSONstringifyObject(names, object) ==
  LET RECURSIVE members(_)
      members(ns) ==
        IF ns = <<>> THEN <<>>
        ELSE <<[name |-> Head(ns), v |-> object[Head(ns)]]>> \o members(Tail(ns))
  IN  members(names)

JSONparseObject(text) ==
  [n \in {text[i].name : i \in 1..Len(text)} |->
     text[CHOOSE i \in 1..Len(text) :
            text[i].name = n /\ \A j \in (i + 1)..Len(text) : text[j].name # n].v]

(***************************************************************************)
(* storePasskeyCredential(credential): the text written under              *)
(* 'passkey-credential'.                                                   *)
(***************************************************************************)
storePasskeyCredential_withPublicKey(credential) ==
  JSONstringifyObject(<<"id", "publicKey", "userHandle">>, credential)

storePasskeyCredential(credential) ==
  JSONstringifyObject(<<"id", "userHandle">>, credential)

(***************************************************************************)
(* getStoredPasskeyCredential() and hasPasskeySetup() on the stored text;  *)
(* Fail stands for null.                                                   *)
(***************************************************************************)
getStoredPasskeyCredential(stored) ==
  IF stored = <<>> THEN Fail(NoError) ELSE Ok(JSONparseObject(stored))

hasPasskeySetup(stored) == getStoredPasskeyCredential(stored).ok

(***************************************************************************)
(* How a WebAuthn ceremony ends: navigator.credentials.create/get rejects  *)
(* (the user cancels or the timeout passes), resolves to null, resolves    *)
(* without the PRF extension, or resolves with it.  The PRF output is a    *)
(* function of the credential.                                             *)
(***************************************************************************)
CeremonyOutcomes == {"aborted", "null", "noPRF", "ok"}

CeremonyAborted == "NotAllowedError"
AuthenticateFailed == "Failed to authenticate with passkey"
CreateFailed == "Failed to create passkey"
PRFNotEnabled ==
  "PRF extension is required but not supported by this authenticator"
PRFUnavailable ==
  "WebAuthn PRF extension is not supported on this device/browser"

prf(credentialId) == IF credentialId = "cred1" THEN "K1" ELSE "K2"

authenticateWithPasskey_noCheck(credentialId, outcome) ==
  Ok(prf(credentialId))

authenticateWithPasskey(credentialId, outcome) ==
  CASE outcome = "aborted" -> Fail(CeremonyAborted)
    [] outcome = "null" -> Fail(AuthenticateFailed)
    [] outcome = "noPRF" -> Fail(PRFUnavailable)
    [] outcome = "ok" -> Ok(prf(credentialId))

createPasskey_noCheck(id, outcome) ==
  Ok(Descriptor(id))

createPasskey(id, outcome) ==
  CASE outcome = "aborted" -> Fail(CeremonyAborted)
    [] outcome = "null" -> Fail(CreateFailed)
    [] outcome = "noPRF" -> Fail(PRFNotEnabled)
    [] outcome = "ok" -> Ok(Descriptor(id))

(***************************************************************************)
(* getEncryptionPreference() and initializeEncryption() on the stored      *)
(* preference.                                                             *)
(***************************************************************************)
getEncryptionPreference(preference) == preference # "disabled"

initializeEncryption(preference) ==
  isCryptoAvailable /\ getEncryptionPreference(preference)

(***************************************************************************)
(* What the template shows: the unlock button and the lock button.         *)
(***************************************************************************)
shouldShowUnlockState ==
  app.hasPasskeyConfigured /\ ~isUnlocked /\ app.encryptionEnabled

showLockButton ==
  isUnlocked /\ app.encryptionEnabled /\ app.hasPasskeyConfigured

(***************************************************************************)
(* The initial state of the application: the page is loaded, the           *)
(* composable created, nothing mounted yet.  localStorage holds what       *)
(* earlier visits left: a preference, a credential, a record.              *)
(***************************************************************************)
InitApp ==
  /\ localStorage \in
       {[k \in StorageKeys |-> IF k = RecordKey THEN r ELSE <<>>] :
          r \in {<<>>} \cup {JSONstringify(v) : v \in Values}
                  \cup {Sealed(v, "K1", -1) : v \in Values}
                  \cup {Sealed(<<>>, "K2", -1)}}
  /\ keyOrder = <<RecordKey, OtherKey>>
  /\ Booted
  /\ cipher = CipherIdle
  /\ run = RunIdle
  /\ app \in {[AppIdle EXCEPT !.pref = p, !.credential = c.text, !.given = c.d] :
                p \in {"null", "disabled"},
                c \in {[text |-> <<>>, d |-> NoDescriptor],
                       [text |-> storePasskeyCredential(Descriptor("cred1")),
                        d |-> Descriptor("cred1")]}}

coreVars ==
  <<localStorage, keyOrder, isUnlocked, currentPasskeyKeyMaterial, data,
    defaultValue, dataSrc, error, saveQueued, loadQueued, saves, loads,
    unlocks, rng, last, sinceLock, parsedTagged, openedUntagged, sealLog,
    migRun, cipher>>

(***************************************************************************)
(* A click on a control of the page: its handler runs when no job is       *)
(* queued, and the model follows MaxClicks of them.                        *)
(***************************************************************************)
Clicked ==
  /\ Quiet
  /\ calls < MaxClicks
  /\ calls' = calls + 1

(***************************************************************************)
(* onMounted of App.vue.                                                   *)
(***************************************************************************)
OnMounted ==
  /\ ~app.mounted
  /\ app' = [app EXCEPT
               !.mounted = TRUE,
               !.encryptionEnabled = initializeEncryption(app.pref),
               !.hasPasskeyConfigured =
                  IF isCryptoAvailable THEN hasPasskeySetup(app.credential) ELSE @]
  /\ UNCHANGED <<coreVars, calls, run>>

(***************************************************************************)
(* handleDirectUnlock, from the click on the unlock button to its await of *)
(* the ceremony.                                                           *)
(***************************************************************************)
HandleDirectUnlock ==
  LET storedCredential == getStoredPasskeyCredential(app.credential)
  IN  /\ app.mounted
      /\ shouldShowUnlockState
      /\ app.unlock.pc = "idle"
      /\ Clicked
      /\ app' = [app EXCEPT
                   !.unlockError = NoError,
                   !.unlock = [pc |-> "auth",
                               id |-> IF storedCredential.ok
                                      THEN storedCredential.val.id ELSE "none",
                               km |-> NoKey,
                               before |-> <<isUnlocked, currentPasskeyKeyMaterial>>]]
      /\ UNCHANGED <<coreVars, run>>

(***************************************************************************)
(* handleDirectUnlock resumed when the ceremony ends: the catch block      *)
(* records the failure, or unlockStorage(keyMaterial) is called and        *)
(* awaited.                                                                *)
(***************************************************************************)
DirectCeremony(outcome) ==
  LET keyMaterial == authenticateWithPasskey(app.unlock.id, outcome)
  IN  /\ app.unlock.pc = "auth"
      /\ Quiet
      /\ IF keyMaterial.ok
         THEN /\ unlockStorageCall(keyMaterial.val)
              /\ app' = [app EXCEPT
                           !.unlock = IF last'.res = "await"
                                      THEN [@ EXCEPT !.pc = "unlock",
                                                     !.km = keyMaterial.val]
                                      ELSE FlowIdle]
         ELSE /\ app' = [app EXCEPT !.unlock = FlowIdle,
                                    !.unlockError = keyMaterial.err]
              /\ UNCHANGED coreVars
      /\ UNCHANGED <<calls, run>>

(***************************************************************************)
(* handleLockStorage, from the click on the lock button.                   *)
(***************************************************************************)
HandleLockStorage ==
  /\ app.mounted
  /\ showLockButton
  /\ Clicked
  /\ lockStorageCall
  /\ UNCHANGED <<app, run>>

(***************************************************************************)
(* handleSetupPasskey of SetupPasskey, from the click on the setup button  *)
(* to its await of createPasskey().  The component is rendered while       *)
(* hasPasskeyConfigured is false.                                          *)
(***************************************************************************)
HandleSetupPasskey ==
  /\ app.mounted
  /\ ~app.hasPasskeyConfigured
  /\ app.setup.pc = "idle"
  /\ Clicked
  /\ app' = [app EXCEPT
               !.setupError = NoError,
               !.setup = [FlowIdle EXCEPT
                            !.pc = "create",
                            !.before = <<isUnlocked, currentPasskeyKeyMaterial>>]]
  /\ UNCHANGED <<coreVars, run>>

(***************************************************************************)
(* handleSetupPasskey resumed when the registration ceremony ends:         *)
(* createPasskey throws, or the descriptor is stored and the               *)
(* authentication ceremony started.                                        *)
(***************************************************************************)
CreateCeremony(id, outcome) ==
  LET credential == createPasskey(id, outcome)
  IN  /\ app.setup.pc = "create"
      /\ Quiet
      /\ app' = IF credential.ok
                THEN [app EXCEPT
                        !.credential = storePasskeyCredential(credential.val),
                        !.given = credential.val,
                        !.setup = [@ EXCEPT !.pc = "auth",
                                            !.id = credential.val.id]]
                ELSE [app EXCEPT !.setup = FlowIdle,
                                 !.setupError = credential.err]
      /\ UNCHANGED <<coreVars, calls, run>>

(***************************************************************************)
(* handleSetupPasskey resumed when the authentication ceremony ends: it    *)
(* throws, or 'setup' is emitted.  emit does nothing once the component is *)
(* unmounted; otherwise handlePasskeySetup runs up to its await of         *)
(* unlockStorage(setupResult.keyMaterial), or past it to its await of      *)
(* migrateToEncrypted when unlockStorage does not await.                   *)
(***************************************************************************)
SetupAuthCeremony(outcome) ==
  LET keyMaterial == authenticateWithPasskey(app.setup.id, outcome)
  IN  /\ app.setup.pc = "auth"
      /\ Quiet
      /\ IF keyMaterial.ok /\ ~app.hasPasskeyConfigured
         THEN /\ unlockStorageCall(keyMaterial.val)
              /\ app' = [app EXCEPT
                           !.setup = FlowIdle,
                           !.handlers = @ \cup
                              {[pc |-> IF last'.res = "await"
                                       THEN "unlock" ELSE "migrate",
                                km |-> keyMaterial.val]}]
         ELSE /\ app' = [app EXCEPT
                           !.setup = FlowIdle,
                           !.setupError = IF keyMaterial.ok THEN @
                                          ELSE keyMaterial.err]
              /\ UNCHANGED coreVars
      /\ UNCHANGED <<calls, run>>

(***************************************************************************)
(* unlockStorage resumed, and with it what awaits it when it ends:         *)
(* handleDirectUnlock (its catch block records the failure) and            *)
(* handlePasskeySetup (it goes on to migrateToEncrypted, or throws).       *)
(***************************************************************************)
AppUnlockResume(u) ==
  /\ unlockStorageResume(u)
  /\ LET res == last'.res
         mine == app.unlock.pc = "unlock" /\ app.unlock.km = u.km
         waiting == {h \in app.handlers : h.pc = "unlock" /\ h.km = u.km}
     IN  app' = IF res = "await" THEN app
                ELSE [app EXCEPT
                        !.unlock = IF mine THEN FlowIdle ELSE @,
                        !.unlockError = IF mine /\ res # "unlocked"
                                        THEN res ELSE @,
                        !.handlers =
                           (@ \ waiting) \cup
                           (IF res = "unlocked"
                            THEN {[h EXCEPT !.pc = "migrate"] : h \in waiting}
                            ELSE {})]
  /\ UNCHANGED run

(***************************************************************************)
(* handlePasskeySetup resumed after await unlockStorage: it calls          *)
(* migrateToEncrypted(), which throws, ends, or awaits saveData.           *)
(***************************************************************************)
SetupMigrate(h) ==
  /\ h.pc = "migrate"
  /\ Quiet
  /\ migrateToEncryptedCall
  /\ app' = [app EXCEPT
               !.handlers =
                  (@ \ {h}) \cup
                  (IF last'.thrown THEN {}
                   ELSE IF last'.res = "await"
                   THEN {[h EXCEPT !.pc = "save"]}
                   ELSE {[h EXCEPT !.pc = "finish"]})]
  /\ UNCHANGED <<calls, run>>

(***************************************************************************)
(* saveData resumed, and with it the migrateToEncrypted that awaits it.    *)
(***************************************************************************)
AppSaveResume(s) ==
  /\ saveDataResume(s)
  /\ LET waiting == {h \in app.handlers : h.pc = "save"}
     IN  app' = IF s.mig
                THEN [app EXCEPT
                        !.handlers = (@ \ waiting) \cup
                           {[h EXCEPT !.pc = "finish"] : h \in waiting}]
                ELSE app
  /\ UNCHANGED run

(***************************************************************************)
(* handlePasskeySetup resumed after await migrateToEncrypted():            *)
(* hasPasskeyConfigured.value = true.                                      *)
(***************************************************************************)
SetupFinish(h) ==
  /\ h.pc = "finish"
  /\ Quiet
  /\ app' = [app EXCEPT !.hasPasskeyConfigured = TRUE,
                        !.handlers = @ \ {h}]
  /\ UNCHANGED <<coreVars, calls, run>>

(***************************************************************************)
(* addAccount and deleteAccount of App.vue: nothing is done while no       *)
(* passkey is configured.                                                  *)
(***************************************************************************)
AppAddAccount(a) ==
  /\ app.mounted
  /\ app.hasPasskeyConfigured
  /\ Clicked
  /\ pushAccount(a)
  /\ UNCHANGED <<app, run>>

AppDeleteAccount(a) ==
  /\ app.mounted
  /\ app.hasPasskeyConfigured
  /\ Clicked
  /\ filterAccounts(a)
  /\ UNCHANGED <<app, run>>

NextApp ==
  \/ OnMounted
  \/ HandleDirectUnlock
  \/ \E outcome \in CeremonyOutcomes : DirectCeremony(outcome)
  \/ HandleLockStorage
  \/ HandleSetupPasskey
  \/ \E id \in CredIds, outcome \in CeremonyOutcomes : CreateCeremony(id, outcome)
  \/ \E outcome \in CeremonyOutcomes : SetupAuthCeremony(outcome)
  \/ \E u \in unlocks : AppUnlockResume(u)
  \/ \E h \in app.handlers : SetupMigrate(h)
  \/ \E s \in saves : AppSaveResume(s)
  \/ \E h \in app.handlers : SetupFinish(h)
  \/ \E a \in Accounts : AppAddAccount(a)
  \/ \E a \in Accounts : AppDeleteAccount(a)
  \/ \E l \in loads : LoadResume(l)
  \/ WatchData
  \/ WatchSession

SpecApp == InitApp /\ [][NextApp]_vars

(***************************************************************************)
(* C1.  unlockStorage(K) called while some stored value is tagged: when K  *)
(* sealed none of the tagged values present during the call, the call      *)
(* does not end with the session unlocked; when K sealed every tagged      *)
(* value present at the call, the call ends with the session unlocked and  *)
(* K held.                                                                 *)
(***************************************************************************)
C1_UnlockValidates ==
  (last.op = "unlockStorage" /\ last.res # "await" /\ last.ks0 # {})
    => /\ last.km \notin last.ks => last.res = InvalidKeyMaterial
       /\ last.res = "unlocked" => last.km \in last.ks
       /\ last.ks0 = {last.km} =>
            /\ last.res = "unlocked"
            /\ isUnlocked
            /\ currentPasskeyKeyMaterial = last.km

C1_Witness ==
  /\ last.op = "unlockStorage"
  /\ last.res = "unlocked"
  /\ last.ks0 = {last.km}
  /\ isUnlocked

(***************************************************************************)
(* C2.  A loadData made after lockStorage() and before the next            *)
(* unlockStorage that completes successfully, on a record whose stored     *)
(* value is tagged, ends with the error 'Data is encrypted but no passkey  *)
(* authentication available' and with data reset to the default value: no  *)
(* decrypted content is delivered.                                         *)
(***************************************************************************)
C2_LoadAfterLockRequiresSession ==
  (last.op = "loadData" /\ sinceLock /\ startsWithTag(localStorage[RecordKey]))
    => /\ last.res = EncryptionSessionRequired
       /\ error = EncryptionSessionRequired
       /\ data = defaultValue
       /\ dataSrc = "default"

C2_Witness ==
  /\ last.op = "loadData"
  /\ sinceLock
  /\ startsWithTag(localStorage[RecordKey])
  /\ last.res = EncryptionSessionRequired

(***************************************************************************)
(* C3 as stated: after an unlockStorage(K) that failed its validation the  *)
(* session is locked and K is not the held keying material, whatever the   *)
(* session was before.                                                     *)
(***************************************************************************)
C3_AsStated ==
  (last.op = "unlockStorage" /\ last.res = InvalidKeyMaterial)
    => /\ ~isUnlocked
       /\ currentPasskeyKeyMaterial # last.km

(***************************************************************************)
(* C3.  An unlockStorage(K) that fails its validation throws 'Invalid      *)
(* passkey authentication or corrupted data' and assigns neither the       *)
(* session state nor the session keying material: a locked session stays   *)
(* locked and K is not adopted, an unlocked session stays unlocked with    *)
(* the keying material it held.                                            *)
(***************************************************************************)
C3_FailedUnlockAssignsNothing ==
  [][(last'.op = "unlockStorage" /\ last'.res = InvalidKeyMaterial)
       => /\ isUnlocked' = isUnlocked
          /\ currentPasskeyKeyMaterial' = currentPasskeyKeyMaterial
          /\ (~isUnlocked => currentPasskeyKeyMaterial' # last'.km)]_vars

C3_Witness ==
  /\ last.op = "unlockStorage"
  /\ last.res = InvalidKeyMaterial
  /\ isUnlocked
  /\ currentPasskeyKeyMaterial # last.km

(***************************************************************************)
(* C4.  lockStorage() can be taken in every reachable state, whatever is   *)
(* in flight, and in the state it leads to the session keying material is  *)
(* empty and the session is locked; it has no failing outcome.             *)
(***************************************************************************)
C4_LockTotal ==
  /\ ENABLED lockStorage
  /\ last.op = "lockStorage"
       => /\ last.res = "ok"
          /\ currentPasskeyKeyMaterial = NoKey
          /\ ~isUnlocked

C4_Witness ==
  /\ last.op = "lockStorage"
  /\ saves # {}
  /\ unlocks # {}

(***************************************************************************)
(* C5.  No operation has parsed a tagged stored value as plain JSON, and   *)
(* none has passed an untagged stored value to decryptData.                *)
(***************************************************************************)
C5_FormatDiscrimination == ~parsedTagged /\ ~openedUntagged

C5_Witness ==
  /\ dataSrc = "decrypted"
  /\ \E s \in saves : s.mig

C8_RoundTrip ==
  (cipher.phase = "opened" /\ cipher.K1 = cipher.K2)
    => cipher.out = Ok(cipher.P)

(***************************************************************************)
(* C9.  Opening under K2 a blob sealed under a different K1 returns no     *)
(* value: it fails with 'Failed to decrypt data with passkey -             *)
(* authentication failed or corrupted data'.                               *)
(***************************************************************************)
C9_KeySensitivity ==
  (cipher.phase = "opened" /\ cipher.K1 # cipher.K2)
    => cipher.out = Fail(AuthenticationFailed)

C9_Witness ==
  /\ cipher.phase = "opened"
  /\ cipher.K1 # cipher.K2
  /\ ~cipher.out.ok
  /\ cipher.P # <<>>

(***************************************************************************)
(* C10.  Every encryptData call made by a save or a migration used a salt  *)
(* and an IV no other call used: no two calls share (keying material,      *)
(* salt, IV), and two calls sealing the same text under the same keying    *)
(* material produced different blobs.                                      *)
(***************************************************************************)
C10_FreshSaltAndIv ==
  /\ Cardinality(sealLog) = rng
  /\ \A a \in sealLog : \A b \in sealLog \ {a} :
       /\ a.salt # b.salt
       /\ a.iv # b.iv
       /\ (a.km = b.km /\ a.data = b.data) => a.blob # b.blob

C10_Witness ==
  \E a \in sealLog : \E b \in sealLog \ {a} :
    a.km = b.km /\ a.data = b.data

(***************************************************************************)
(* C11 as stated.  At the end of the run unlock(K), save V, lock, load,    *)
(* unlock(K), load: the value stored after the save was tagged, the load   *)
(* made while locked ended with 'Data is encrypted but no passkey          *)
(* authentication available', the second unlock(K) left the session        *)
(* unlocked, and the final load left data equal to V.                      *)
(***************************************************************************)
C11_Run ==
  run.pc = "done"
    => /\ run.savedTagged
       /\ run.lockedLoad = EncryptionSessionRequired
       /\ run.unlock2
       /\ data = run.V

(***************************************************************************)
(* C12.  The session starts locked with no keying material.  A step that   *)
(* takes it from locked to unlocked is the completion of an unlockStorage  *)
(* whose validation succeeded, or an unlockStorage that found no tagged    *)
(* value; a step that takes it from unlocked to locked is lockStorage().   *)
(* No other step (load, save, migration, watcher, failed unlock) changes   *)
(* isUnlocked.                                                             *)
(***************************************************************************)
C12_Lifecycle ==
  /\ ~isUnlocked /\ currentPasskeyKeyMaterial = NoKey
  /\ [][/\ (~isUnlocked /\ isUnlocked') =>
              \/ \E u \in unlocks :
                   UnlockResume(u) /\ keyMaterialValid(u.enc, u.km)
              \/ \E keyMaterial \in KeyMaterials :
                   UnlockStorage(keyMaterial) /\ ~hasEncryptedData
        /\ (isUnlocked /\ ~isUnlocked') => lockStorage]_vars

C12_Witness ==
  /\ isUnlocked
  /\ last.op = "unlockStorage"
  /\ last.ks0 # {}
  /\ sealLog # {}

(***************************************************************************)
(* C13 as stated.  When the lock state is toggled and the caller never     *)
(* changes the in-memory value, no step (lockStorage, unlockStorage, the   *)
(* session watcher's loadData, the auto-save it causes) changes the stored *)
(* string of a record that exists.                                         *)
(***************************************************************************)
C13_ToggleKeepsRecords ==
  [][\A k \in StorageKeys :
       localStorage[k] # <<>> => localStorage'[k] = localStorage[k]]_vars

(***************************************************************************)
(* C14.  unlockStorage(K) called while no stored value is tagged completes *)
(* at once for every K: it suspends at no decryptData, passes nothing to   *)
(* decryptData, and leaves the session unlocked holding K.                 *)
(***************************************************************************)
C14_FirstRunUnlock ==
  [][\A keyMaterial \in KeyMaterials :
       (UnlockStorage(keyMaterial) /\ ~hasEncryptedData)
         => /\ last'.op = "unlockStorage" /\ last'.res = "unlocked"
            /\ unlocks' = unlocks
            /\ openedUntagged' = openedUntagged
            /\ isUnlocked'
            /\ currentPasskeyKeyMaterial' = keyMaterial]_vars

C14_Witness ==
  /\ last.op = "unlockStorage"
  /\ last.res = "unlocked"
  /\ last.ks0 = {}
  /\ isUnlocked
  /\ currentPasskeyKeyMaterial = last.km
  /\ needsMigration(localStorage[RecordKey])

(***************************************************************************)
(* C15.  migrateToEncrypted() called while no keying material is held      *)
(* throws 'Cannot migrate: encryption not available or no passkey          *)
(* authentication' and changes neither the stored record, nor data, nor    *)
(* the session; it starts no save.                                         *)
(***************************************************************************)
C15_MigrateLockedFails ==
  [][(MigrateToEncrypted /\ currentPasskeyKeyMaterial = NoKey)
       => /\ last'.op = "migrateToEncrypted"
          /\ last'.res = CannotMigrate
          /\ last'.thrown
          /\ UNCHANGED <<localStorage, data, dataSrc, saveQueued, saves,
                         isUnlocked, currentPasskeyKeyMaterial>>]_vars

C15_Witness ==
  /\ last.op = "migrateToEncrypted"
  /\ last.res = CannotMigrate
  /\ ~isUnlocked
  /\ needsMigration(localStorage[RecordKey])
  /\ ContentOf(localStorage[RecordKey]).val # data

(***************************************************************************)
(* C16.  A step in which the ceremony awaited by handleDirectUnlock ends   *)
(* cancelled, timed out, without a credential or without a PRF result      *)
(* leaves the session and the key material as they were when the flow      *)
(* started, calls no storage operation (no unlockStorage call is started   *)
(* or recorded), and leaves the failure in unlockError.                    *)
(***************************************************************************)
C16_FailedCeremonyChangesNothing ==
  [][\A outcome \in CeremonyOutcomes \ {"ok"} :
       DirectCeremony(outcome) =>
         /\ <<isUnlocked', currentPasskeyKeyMaterial'>> = app.unlock.before
         /\ UNCHANGED <<isUnlocked, currentPasskeyKeyMaterial, unlocks, last,
                        localStorage, loadQueued>>
         /\ app'.unlockError = authenticateWithPasskey(app.unlock.id, outcome).err
         /\ app'.unlock.pc = "idle"]_vars

C16_Witness ==
  /\ app.unlockError \in {CeremonyAborted, PRFUnavailable}
  /\ app.unlock.pc = "idle"
  /\ ~isUnlocked
  /\ currentPasskeyKeyMaterial = NoKey
  /\ hasEncryptedData
  /\ unlocks = {}

(***************************************************************************)
(* C17.  While no descriptor was ever handed to storePasskeyCredential,    *)
(* getStoredPasskeyCredential() is null and hasPasskeySetup() is false;    *)
(* once a descriptor d was stored, getStoredPasskeyCredential() is exactly *)
(* {id: d.id, userHandle: d.userHandle} for the last such d and            *)
(* hasPasskeySetup() is true, whatever locks and unlocks follow.           *)
(***************************************************************************)
C17_CredentialStore ==
  LET stored == getStoredPasskeyCredential(app.credential)
  IN  IF app.given = NoDescriptor
      THEN ~stored.ok /\ ~hasPasskeySetup(app.credential)
      ELSE /\ stored.ok
           /\ stored.val = [id |-> app.given.id,
                            userHandle |-> app.given.userHandle]
           /\ DOMAIN stored.val = {"id", "userHandle"}
           /\ hasPasskeySetup(app.credential)

C17_Witness ==
  /\ app.given = Descriptor("cred2")
  /\ getStoredPasskeyCredential(app.credential).val.id = "cred2"
  /\ last.op = "lockStorage"
  /\ ~isUnlocked
  /\ sealLog # {}

(***************************************************************************)
(* C18.  A loadData whose decryptData fails does not complete normally:    *)
(* it ends by throwing to its caller.  (last.thrown is set by the          *)
(* operations that end with a throw; loadData's catch block assigns        *)
(* error.value and data.value and returns.)                                *)
(***************************************************************************)
C18_OpenFailurePropagates ==
  (last.op = "loadData.resume" /\ last.res = InvalidKeyMaterial)
    => last.thrown

(***************************************************************************)
(* C19.  A step in which the registration ceremony of handleSetupPasskey   *)
(* ends without the PRF extension enabled: createPasskey fails with the    *)
(* PRF error, the setup flow is over with that error in its error ref,     *)
(* nothing is written under 'passkey-credential' (it stays absent when it  *)
(* was absent), no 'setup' handler is started, no unlockStorage is called, *)
(* and the session is as it was (locked when it was locked).               *)
(***************************************************************************)
C19_NoPRFAtRegistration ==
  [][\A id \in CredIds :
       CreateCeremony(id, "noPRF") =>
         /\ ~createPasskey(id, "noPRF").ok
         /\ app'.setup.pc = "idle"
         /\ app'.setupError = PRFNotEnabled
         /\ app'.credential = app.credential
         /\ app'.given = app.given
         /\ app'.hasPasskeyConfigured = app.hasPasskeyConfigured
         /\ app'.handlers = app.handlers
         /\ UNCHANGED <<isUnlocked, currentPasskeyKeyMaterial, unlocks, last,
                        localStorage>>]_vars

C19_Witness ==
  /\ app.setupError = PRFNotEnabled
  /\ app.setup.pc = "idle"
  /\ app.credential = <<>>
  /\ ~hasPasskeySetup(app.credential)
  /\ ~app.hasPasskeyConfigured
  /\ ~isUnlocked
  /\ currentPasskeyKeyMaterial = NoKey

(***************************************************************************)
(* C20.  Once the application is mounted with a stored preference for      *)
(* which initializeEncryption() returns false, no saveData of the          *)
(* composable seals: no sealing is started or in flight, and a completed   *)
(* saveData leaves an untagged record.                                     *)
(***************************************************************************)
C20_PreferenceHonoured ==
  (app.mounted /\ ~initializeEncryption(app.pref))
    => /\ ~app.encryptionEnabled
       /\ sealLog = {}
       /\ saves = {}
       /\ (last.op = "saveData" /\ last.res = "written")
            => ~startsWithTag(localStorage[RecordKey])

(***************************************************************************)
(* C21.  unlockStorage decides on its first decryptData: a step in which   *)
(* unlockStorage resumes from a failed attempt ends the call with          *)
(* 'Invalid passkey authentication or corrupted data', and starts no       *)
(* attempt on another tagged record.                                       *)
(***************************************************************************)
C21_SingleAttempt ==
  [][\A u \in unlocks :
       (UnlockResume(u) /\ ~keyMaterialValid(u.enc, u.km))
         => /\ last'.op = "unlockStorage"
            /\ last'.res = InvalidKeyMaterial
            /\ unlocks' = unlocks \ {u}]_vars

(***************************************************************************)
(* C22.  When a saveData has just written the record, no other saveData is *)
(* in flight and no watcher job is queued, the stored record decodes (by   *)
(* JSON.parse, or by opening under the key it was sealed with) to the      *)
(* in-memory value.                                                        *)
(***************************************************************************)
C22_StoredFollowsMemory ==
  (last.op = "saveData" /\ last.res = "written" /\ saves = {} /\ Quiet)
    => /\ ContentOf(localStorage[RecordKey]).ok
       /\ ContentOf(localStorage[RecordKey]).val = data

(***************************************************************************)
(* C23.  When a loadData completes while the session is unlocked, the      *)
(* in-memory value is the decoded content of the stored record, or the     *)
(* default value when nothing is stored.                                   *)
(***************************************************************************)
C23_LoadedAfterUnlock ==
  (/\ last.op \in {"loadData", "loadData.resume"}
   /\ last.res # "await"
   /\ isUnlocked /\ currentPasskeyKeyMaterial # NoKey)
    => IF localStorage[RecordKey] = <<>>
       THEN data = defaultValue
       ELSE /\ ContentOf(localStorage[RecordKey]).ok
            /\ data = ContentOf(localStorage[RecordKey]).val

(***************************************************************************)
(* C24.  In every state between steps of the operations, the lock flag and *)
(* the key holder agree: isUnlocked is true exactly when                   *)
(* currentPasskeyKeyMaterial is not null.                                  *)
(***************************************************************************)
C24_FlagAndKeyAgree ==
  isUnlocked <=> currentPasskeyKeyMaterial # NoKey

C24_Witness ==
  /\ isUnlocked
  /\ currentPasskeyKeyMaterial # NoKey
  /\ saves # {}
  /\ \E s \in saves : s.km # currentPasskeyKeyMaterial

(***************************************************************************)
(* C25.  No downgrade: a record whose stored value is tagged 'encrypted:'  *)
(* keeps a tagged stored value in every step.                              *)
(***************************************************************************)
C25_NoDowngrade ==
  [][\A k \in StorageKeys :
       startsWithTag(localStorage[k]) => startsWithTag(localStorage'[k])]_vars

(***************************************************************************)
(* C26.  After a loadData that has just failed (tagged record and no key,  *)
(* failed decryptData, malformed JSON) and has reset the in-memory value   *)
(* to the default, the data watcher's saveData that runs next leaves every *)
(* stored string as it is.                                                 *)
(***************************************************************************)
C26_FailedLoadKeepsStorage ==
  [][(/\ last.op \in {"loadData", "loadData.resume"}
      /\ last.res \in {EncryptionSessionRequired, InvalidKeyMaterial, SyntaxError}
      /\ error = last.res
      /\ dataSrc = "default" /\ data = defaultValue
      /\ WatchData)
       => localStorage' = localStorage]_vars

(***************************************************************************)
(* C27.  lockStorage is not undone by an unlockStorage that was suspended  *)
(* when it ran: when lockStorage is the operation that ran last and an     *)
(* unlockStorage begun before it resumes, the session is still locked and  *)
(* holds no key after that step.                                           *)
(***************************************************************************)
C27_LockNotUndone ==
  [][\A u \in unlocks :
       (last.op = "lockStorage" /\ UnlockResume(u))
         => ~isUnlocked' /\ currentPasskeyKeyMaterial' = NoKey]_vars

(***************************************************************************)
(* C28.  While the session is locked, the in-memory value holds no         *)
(* accounts that were obtained by decrypting a tagged record.              *)
(***************************************************************************)
C28_NoDecryptedContentWhileLocked ==
  ~isUnlocked => ~(dataSrc = "decrypted" /\ data # <<>>)

(***************************************************************************)
(* C29.  Passkey setup is all-or-nothing: once the application is mounted  *)
(* and no setup flow is in progress, a credential descriptor is persisted  *)
(* (hasPasskeySetup() is true) only if a setup flow ran to its end, with   *)
(* unlockStorage and migrateToEncrypted done and hasPasskeyConfigured set. *)
(***************************************************************************)
C29_SetupAllOrNothing ==
  (/\ app.mounted
   /\ app.setup.pc = "idle"
   /\ app.handlers = {}
   /\ hasPasskeySetup(app.credential))
    => app.hasPasskeyConfigured

(***************************************************************************)
(* C30.  Whenever the session is unlocked and no saveData is in flight,    *)
(* every tagged stored value that a saveData wrote opens under the key     *)
(* material the session holds.                                             *)
(***************************************************************************)
C30_StoredOpensUnderSessionKey ==
  (isUnlocked /\ saves = {})
    => \A k \in StorageKeys :
         (/\ startsWithTag(localStorage[k])
          /\ \E e \in sealLog : storedForm(e.blob) = localStorage[k])
           => decryptData(substring10(localStorage[k]),
                          currentPasskeyKeyMaterial).ok
====
